---- MODULE Spec2Model ----
(***************************************************************************)
(* A model of scripts/load_schema.py: the one-shot utility that fetches    *)
(* the Directus OpenAPI document, extracts components.schemas and writes   *)
(* it to reference/schema.json.                                            *)
(*                                                                         *)
(* Spec      sequential runs of the script against one file system.        *)
(* SpecConc  two runs that both reached the write step, interleaved.       *)
(***************************************************************************)
EXTENDS Integers, Sequences, FiniteSets, TLC

\* Number of sequential runs of the script that are explored.
MaxRuns == 3

(***************************************************************************)
(* Data: JSON values as far as the script looks at them.                   *)
(***************************************************************************)

\* Schema names in document order, and schema definitions.
KeyOrder == <<"A", "B">>
KeySet == {KeyOrder[i] : i \in 1..Len(KeyOrder)}
Defs == {"object", "string"}

Mappings == UNION {[S -> Defs] : S \in SUBSET KeySet}
EmptyMap == CHOOSE m \in Mappings : DOMAIN m = {}
NonEmptyMappings == Mappings \ {EmptyMap}

\* A JSON value as the extractor sees it: its type and, for an object of
\* schemas, its members.  "array" stands for a non-empty array.
Value(t, m) == [t |-> t, map |-> m]
NoValue == Value("none", EmptyMap)
EmptyDict == Value("object", EmptyMap)

\* A parsed response body: the type of the top-level value, of its
\* "components" member and of components' "schemas" member ("missing": no
\* such key), the schemas and the rest of the document.
Doc(top, comp, sch, m) == [top |-> top, comp |-> comp, sch |-> sch, map |-> m, paths |-> "/items"]
NoDoc == [top |-> "none", comp |-> "missing", sch |-> "missing", map |-> EmptyMap, paths |-> ""]
Docs ==
    {Doc("array", "missing", "missing", EmptyMap),
     Doc("object", "missing", "missing", EmptyMap),
     Doc("object", "null", "missing", EmptyMap),
     Doc("object", "object", "missing", EmptyMap),
     Doc("object", "object", "null", EmptyMap),
     Doc("object", "object", "array", EmptyMap)}
    \cup {Doc("object", "object", "object", m) : m \in Mappings}

\* Environment: DIRECTUS_TOKEN, the HTTP statuses the remote may answer and
\* the faults of the network and of the file system.
Tokens == {"absent", "", "tok"}
Statuses == {200, 204, 401, 403, 500}
ConnectFaults == {"dns", "refused", "tls", "connect_timeout"}
BodyFaults == {"read_timeout", "bad_utf8", "bad_json"}
TransportFaults == ConnectFaults \cup {"read_timeout"}

VARIABLES
    pc,           \* position of the running script
    runs,         \* runs started so far
    token,        \* DIRECTUS_TOKEN of the current run
    netCalls,     \* calls of urlopen in the current run
    status,       \* HTTP status received in the current run (0: none)
    fault,        \* fault the environment injected in the current run
    full_spec,    \* the parsed response body
    schema_data,  \* the extracted value
    dirState,     \* reference/: "absent", "dir" or "file" (not a directory)
    file,         \* reference/schema.json
    success,      \* load_schema's return value
    exitStatus,   \* the process exit status (-1: still running)
    unhandled,    \* an exception left load_schema
    report,       \* the diagnostic block printed
    raised,       \* the exception raised in the current run
    steps,        \* the steps the current run executed
    failedAt,     \* the step of the current run that failed
    fileBefore,   \* file when the current run started
    dirBefore,    \* dirState when the current run started
    lastGood,     \* schema_data of the most recent run that returned True
    wpc,          \* SpecConc: position of each concurrent writer
    woff,         \* SpecConc: file offset of each writer's descriptor
    wdata,        \* SpecConc: schema_data of each writer
    finished,     \* SpecConc: writers in the order their last write completed
    overlap       \* SpecConc: a writer opened the file while the other was writing it

seqVars == <<pc, runs, token, netCalls, status, fault, full_spec, schema_data,
             success, exitStatus, unhandled, report, raised, steps, failedAt,
             fileBefore, dirBefore, lastGood>>
concVars == <<wpc, woff, wdata, finished, overlap>>
vars == <<seqVars, dirState, file, concVars>>


(***************************************************************************)
(* Pure helpers: what the library calls of the script compute.             *)
(***************************************************************************)

\* One unit of file content.  Hole is what a write past the end of the file
\* leaves in between.
Tok(k, v) == [k |-> k, v |-> v]
Hole == Tok("NUL", "")

\* json.dump(schema_data, f, indent=2, ensure_ascii=False): the text, as the
\* sequence of chunks handed to f.write.
Serialize(v) ==
    IF v.t = "object"
    THEN LET ks == SelectSeq(KeyOrder, LAMBDA k : k \in DOMAIN v.map)
         IN  <<Tok("{", "")>> \o [i \in 1..Len(ks) |-> Tok(ks[i], v.map[ks[i]])] \o <<Tok("}", "")>>
    ELSE IF v.t = "array" THEN <<Tok("[", ""), Tok("x", ""), Tok("]", "")>>
    ELSE <<Tok("null", "")>>

\* Python truthiness of a JSON value: None and empty containers are false.
Truthy(v) == \/ v.t = "array"
             \/ v.t = "object" /\ DOMAIN v.map # {}

\* bool(directus_token) of line 31, negated.
TokenMissingIsNone(tok) == tok = "absent"
TokenMissing(tok) == tok \in {"absent", ""}

\* full_spec.get("components", {}): the value, or AttributeError when
\* full_spec is no dict.
GetComponents(doc) ==
    IF doc.top # "object" THEN [err |-> "AttributeError", t |-> "none", sch |-> "missing", map |-> EmptyMap]
    ELSE IF doc.comp = "missing" THEN [err |-> "none", t |-> "object", sch |-> "missing", map |-> EmptyMap]
    ELSE [err |-> "none", t |-> doc.comp, sch |-> doc.sch, map |-> doc.map]

\* components["schemas"] instead of .get: a missing key raises KeyError.
GetSchemasSubscript(c) ==
    IF c.t # "object" THEN [err |-> "AttributeError", val |-> NoValue]
    ELSE IF c.sch = "missing" THEN [err |-> "KeyError", val |-> NoValue]
    ELSE [err |-> "none", val |-> Value(c.sch, c.map)]
\* components.get("schemas", {}): the value, or AttributeError when
\* components is no dict.
GetSchemas(c) ==
    IF c.t # "object" THEN [err |-> "AttributeError", val |-> NoValue]
    ELSE IF c.sch = "missing" THEN [err |-> "none", val |-> EmptyDict]
    ELSE [err |-> "none", val |-> Value(c.sch, c.map)]

\* The base classes of the exceptions the try block can raise.
Bases(cls) ==
    CASE cls = "HTTPError" -> {"HTTPError", "URLError", "OSError", "Exception"}
      [] cls = "URLError" -> {"URLError", "OSError", "Exception"}
      [] cls = "TimeoutError" -> {"TimeoutError", "OSError", "Exception"}
      [] cls = "PermissionError" -> {"PermissionError", "OSError", "Exception"}
      [] cls = "FileExistsError" -> {"FileExistsError", "OSError", "Exception"}
      [] cls = "OSError" -> {"OSError", "Exception"}
      [] cls = "UnicodeDecodeError" -> {"UnicodeDecodeError", "ValueError", "Exception"}
      [] cls = "JSONDecodeError" -> {"JSONDecodeError", "ValueError", "Exception"}
      [] cls = "AttributeError" -> {"AttributeError", "Exception"}
      [] cls = "KeyError" -> {"KeyError", "LookupError", "Exception"}
      [] OTHER -> {cls}

HttpReport(code) ==
    IF code = 401 THEN "AuthenticationFailed"
    ELSE IF code = 403 THEN "PermissionDenied"
    ELSE "HttpError"

\* The except clauses with URLError tried before HTTPError.
HandlerUrlFirst(cls, code) ==
    IF "URLError" \in Bases(cls) THEN "ConnectionError"
    ELSE IF "HTTPError" \in Bases(cls) THEN HttpReport(code)
    ELSE IF "Exception" \in Bases(cls) THEN "UnexpectedError"
    ELSE "Unhandled"
\* The except clauses with a last clause that catches OSError only.
HandlerOsOnly(cls, code) ==
    IF "HTTPError" \in Bases(cls) THEN HttpReport(code)
    ELSE IF "URLError" \in Bases(cls) THEN "ConnectionError"
    ELSE IF "OSError" \in Bases(cls) THEN "UnexpectedError"
    ELSE "Unhandled"
\* The except clauses of load_schema, in their order: the diagnostic an
\* exception of class cls gets, "Unhandled" when no clause matches.
Handler(cls, code) ==
    IF "HTTPError" \in Bases(cls) THEN HttpReport(code)
    ELSE IF "URLError" \in Bases(cls) THEN "ConnectionError"
    ELSE IF "Exception" \in Bases(cls) THEN "UnexpectedError"
    ELSE "Unhandled"

\* Where the script goes after the failure of a step: with a retry of the fetch.
AfterFailureRetry(step) == IF step = "fetch" THEN "fetch" ELSE "return"
\* Where the script goes after the failure of a step: every failing branch
\* returns False.
AfterFailure(step) == "return"

\* sys.exit(0 if success else 1)
ExitStatus(s) == IF s = "True" THEN 0 ELSE 1

\* mkdir without exist_ok: an existing directory raises too.
MkdirStrict(d, denied) ==
    IF d # "absent" THEN [err |-> "FileExistsError", dir |-> d]
    ELSE IF denied THEN [err |-> "PermissionError", dir |-> d]
    ELSE [err |-> "none", dir |-> "dir"]
\* reference_dir.mkdir(exist_ok=True) on reference/ in state d.
Mkdir(d, denied) ==
    IF d = "dir" THEN [err |-> "none", dir |-> d]
    ELSE IF d = "file" THEN [err |-> "FileExistsError", dir |-> d]
    ELSE IF denied THEN [err |-> "PermissionError", dir |-> d]
    ELSE [err |-> "none", dir |-> "dir"]

NoFile == [exists |-> FALSE, data |-> <<>>]
FileOf(data) == [exists |-> TRUE, data |-> data]

\* An open that keeps the content (mode "r+"/"a"-like).
OpenKeep(f) == FileOf(f.data)
\* open(schema_file, "w"): the file exists and is empty.
OpenTruncate(f) == FileOf(<<>>)

Max(a, b) == IF a > b THEN a ELSE b

\* A write of toks at offset off of a descriptor not in append mode.
WriteAt(f, off, toks) ==
    FileOf([i \in 1..Max(Len(f.data), off + Len(toks)) |->
              IF i > off /\ i <= off + Len(toks) THEN toks[i - off]
              ELSE IF i <= Len(f.data) THEN f.data[i]
              ELSE Hole])

Order == <<"config", "fetch", "extract", "write_mkdir", "write_open", "write_dump">>
IsPrefix(s, t) == Len(s) <= Len(t) /\ s = SubSeq(t, 1, Len(s))

(***************************************************************************)
(* Spec: sequential runs of the script.                                    *)
(***************************************************************************)

Init ==
    /\ pc = "idle"
    /\ runs = 0
    /\ token = "absent"
    /\ netCalls = 0
    /\ status = 0
    /\ fault = "none"
    /\ full_spec = NoDoc
    /\ schema_data = NoValue
    /\ dirState \in {"absent", "dir", "file"}
    /\ file \in {NoFile} \cup
                (IF dirState = "dir"
                 THEN {FileOf(Serialize(Value("object", [k \in KeySet |-> "object"])))}
                 ELSE {})
    /\ success = "unset"
    /\ exitStatus = -1
    /\ unhandled = FALSE
    /\ report = "none"
    /\ raised = "none"
    /\ steps = <<>>
    /\ failedAt = "none"
    /\ fileBefore = file
    /\ dirBefore = dirState
    /\ lastGood = NoValue
    /\ wpc = [p \in {1, 2} |-> "done"]
    /\ woff = [p \in {1, 2} |-> 0]
    /\ wdata = [p \in {1, 2} |-> NoValue]
    /\ finished = <<>>
    /\ overlap = FALSE

\* A failing branch that prints rep and returns False.
Fail(step, rep) ==
    /\ report' = rep
    /\ failedAt' = step
    /\ success' = "False"
    /\ pc' = AfterFailure(step)
    /\ UNCHANGED <<unhandled, exitStatus, raised>>

\* An exception of class cls raised by step: the except clause that matches
\* reports it and returns False; with none, it leaves load_schema and the
\* interpreter ends the process with status 1.
Raise(step, cls, code) ==
    /\ raised' = cls
    /\ report' = Handler(cls, code)
    /\ failedAt' = step
    /\ IF Handler(cls, code) = "Unhandled"
       THEN /\ unhandled' = TRUE
            /\ exitStatus' = 1
            /\ pc' = "exited"
            /\ UNCHANGED success
       ELSE /\ success' = "False"
            /\ pc' = AfterFailure(step)
            /\ UNCHANGED <<unhandled, exitStatus>>

\* The process starts: the environment is read (lines 28-29, 136-141).
StartRun ==
    /\ pc \in {"idle", "exited"}
    /\ runs < MaxRuns
    /\ runs' = runs + 1
    /\ token' \in Tokens
    /\ pc' = "config"
    /\ netCalls' = 0
    /\ status' = 0
    /\ fault' = "none"
    /\ full_spec' = NoDoc
    /\ schema_data' = NoValue
    /\ success' = "unset"
    /\ exitStatus' = -1
    /\ unhandled' = FALSE
    /\ report' = "none"
    /\ raised' = "none"
    /\ steps' = <<>>
    /\ failedAt' = "none"
    /\ fileBefore' = file
    /\ dirBefore' = dirState
    /\ UNCHANGED <<dirState, file, lastGood, concVars>>

\* Lines 31-50: the credential check.
Config ==
    /\ pc = "config"
    /\ steps' = Append(steps, "config")
    /\ IF TokenMissing(token)
       THEN Fail("config", "MissingCredential")
       ELSE /\ pc' = "fetch"
            /\ UNCHANGED <<report, failedAt, success, unhandled, exitStatus, raised>>
    /\ UNCHANGED <<runs, token, netCalls, status, fault, full_spec, schema_data,
                   fileBefore, dirBefore, lastGood, dirState, file, concVars>>

\* Lines 56-68: urlopen fails to connect (URLError).
FetchConnectFails ==
    /\ pc = "fetch"
    /\ steps' = Append(steps, "fetch")
    /\ netCalls' = netCalls + 1
    /\ \E f \in ConnectFaults :
          /\ fault' = f
          /\ Raise("fetch", "URLError", 0)
    /\ UNCHANGED <<runs, token, status, full_spec, schema_data,
                   fileBefore, dirBefore, lastGood, dirState, file, concVars>>

\* Lines 56-68: the remote answers.  urlopen raises HTTPError for a status
\* outside 200..299 and returns the response otherwise.
FetchAnswered ==
    /\ pc = "fetch"
    /\ steps' = Append(steps, "fetch")
    /\ netCalls' = netCalls + 1
    /\ \E st \in Statuses :
          /\ status' = st
          /\ IF st < 200 \/ st > 299
             THEN /\ Raise("fetch", "HTTPError", st)
                  /\ UNCHANGED <<fault, full_spec>>
             ELSE IF st # 200
             THEN /\ Fail("fetch", "UnexpectedStatus")
                  /\ UNCHANGED <<fault, full_spec>>
             ELSE \/ /\ fault' = "read_timeout"
                     /\ Raise("fetch", "TimeoutError", 0)
                     /\ UNCHANGED full_spec
                  \/ /\ fault' = "bad_utf8"
                     /\ Raise("fetch", "UnicodeDecodeError", 0)
                     /\ UNCHANGED full_spec
                  \/ /\ fault' = "bad_json"
                     /\ Raise("fetch", "JSONDecodeError", 0)
                     /\ UNCHANGED full_spec
                  \/ /\ full_spec' \in Docs
                     /\ pc' = "extract"
                     /\ UNCHANGED <<fault, report, failedAt, success, unhandled,
                                    exitStatus, raised>>
    /\ UNCHANGED <<runs, token, schema_data,
                   fileBefore, dirBefore, lastGood, dirState, file, concVars>>

\* Lines 71-75: the extraction and the emptiness check.
Extract ==
    /\ pc = "extract"
    /\ steps' = Append(steps, "extract")
    /\ LET c == GetComponents(full_spec)
           s == GetSchemas(c)
       IN  IF c.err # "none" \/ s.err # "none"
           THEN /\ Raise("extract", IF c.err # "none" THEN c.err ELSE s.err, 0)
                /\ UNCHANGED schema_data
           ELSE /\ schema_data' = s.val
                /\ IF ~Truthy(s.val)
                   THEN Fail("extract", "EmptySchema")
                   ELSE /\ pc' = "write_mkdir"
                        /\ UNCHANGED <<report, failedAt, success, unhandled,
                                       exitStatus, raised>>
    /\ UNCHANGED <<runs, token, netCalls, status, fault, full_spec,
                   fileBefore, dirBefore, lastGood, dirState, file, concVars>>

\* Lines 78-79: reference_dir.mkdir(exist_ok=True).  The environment's part
\* is recorded in fault: reference exists and is no directory, or the
\* creation is denied.
WriteMkdir ==
    /\ pc = "write_mkdir"
    /\ steps' = Append(steps, "write_mkdir")
    /\ \E denied \in BOOLEAN :
          LET r == Mkdir(dirState, denied)
          IN  /\ dirState' = r.dir
              /\ fault' = IF dirState = "file" THEN "not_a_directory"
                           ELSE IF dirState = "absent" /\ denied THEN "mkdir_denied"
                           ELSE fault
              /\ IF r.err # "none"
                 THEN Raise("write_mkdir", r.err, 0)
                 ELSE /\ pc' = "write_open"
                      /\ UNCHANGED <<report, failedAt, success, unhandled,
                                     exitStatus, raised>>
    /\ UNCHANGED <<runs, token, netCalls, status, full_spec, schema_data,
                   fileBefore, dirBefore, lastGood, file, concVars>>

\* Line 83: open(schema_file, "w", encoding="utf-8").
WriteOpen ==
    /\ pc = "write_open"
    /\ steps' = Append(steps, "write_open")
    /\ \/ /\ fault' = "open_denied"
          /\ Raise("write_open", "PermissionError", 0)
          /\ UNCHANGED file
       \/ /\ file' = OpenTruncate(file)
          /\ pc' = "write_dump"
          /\ UNCHANGED <<fault, report, failedAt, success, unhandled,
                         exitStatus, raised>>
    /\ UNCHANGED <<runs, token, netCalls, status, full_spec, schema_data,
                   fileBefore, dirBefore, lastGood, dirState, concVars>>

\* Lines 84-89: json.dump into the open file, the close at the end of the
\* with block, and return True.  The device may fail after n chunks.
WriteDump ==
    /\ pc = "write_dump"
    /\ steps' = Append(steps, "write_dump")
    /\ LET text == Serialize(schema_data)
       IN  \/ /\ file' = WriteAt(file, 0, text)
              /\ success' = "True"
              /\ report' = "Saved"
              /\ lastGood' = schema_data
              /\ pc' = "return"
              /\ UNCHANGED <<fault, failedAt, unhandled, exitStatus, raised>>
           \/ \E n \in 0..(Len(text) - 1) :
                 /\ file' = WriteAt(file, 0, SubSeq(text, 1, n))
                 /\ fault' = "disk_full"
                 /\ Raise("write_dump", "OSError", 0)
                 /\ UNCHANGED lastGood
    /\ UNCHANGED <<runs, token, netCalls, status, full_spec, schema_data,
                   fileBefore, dirBefore, dirState, concVars>>

\* Lines 141-146: sys.exit(0 if success else 1).
Exit ==
    /\ pc = "return"
    /\ exitStatus' = ExitStatus(success)
    /\ pc' = "exited"
    /\ UNCHANGED <<runs, token, netCalls, status, fault, full_spec, schema_data,
                   success, unhandled, report, raised, steps, failedAt,
                   fileBefore, dirBefore, lastGood, dirState, file, concVars>>

Next ==
    \/ StartRun
    \/ Config
    \/ FetchConnectFails
    \/ FetchAnswered
    \/ Extract
    \/ WriteMkdir
    \/ WriteOpen
    \/ WriteDump
    \/ Exit

Spec == Init /\ [][Next]_vars

(***************************************************************************)
(* SpecConc: two invocations whose fetch and extraction succeeded, each    *)
(* executing lines 78-84 (mkdir, open with truncation, the writes of       *)
(* json.dump at the descriptor's own offset, close) on the same path.      *)
(***************************************************************************)

Writers == {1, 2}

InitConc ==
    /\ pc = "idle"
    /\ runs = 0
    /\ token = "tok"
    /\ netCalls = 0
    /\ status = 0
    /\ fault = "none"
    /\ full_spec = NoDoc
    /\ schema_data = NoValue
    /\ dirState \in {"absent", "dir"}
    /\ file \in {NoFile} \cup
                (IF dirState = "dir"
                 THEN {FileOf(Serialize(Value("object", [k \in KeySet |-> "object"])))}
                 ELSE {})
    /\ success = "unset"
    /\ exitStatus = -1
    /\ unhandled = FALSE
    /\ report = "none"
    /\ raised = "none"
    /\ steps = <<>>
    /\ failedAt = "none"
    /\ fileBefore = file
    /\ dirBefore = dirState
    /\ lastGood = NoValue
    /\ wpc = [p \in Writers |-> "mkdir"]
    /\ woff = [p \in Writers |-> 0]
    /\ wdata \in [Writers -> {Value("object", m) : m \in NonEmptyMappings}]
    /\ finished = <<>>
    /\ overlap = FALSE

\* Lines 78-79 in writer p.
CMkdir(p) ==
    /\ wpc[p] = "mkdir"
    /\ dirState' = Mkdir(dirState, FALSE).dir
    /\ wpc' = [wpc EXCEPT ![p] = "open"]
    /\ UNCHANGED <<seqVars, file, woff, wdata, finished, overlap>>

\* Line 83 in writer p: the file is truncated, the descriptor is at 0.
COpen(p) ==
    /\ wpc[p] = "open"
    /\ file' = OpenTruncate(file)
    /\ woff' = [woff EXCEPT ![p] = 0]
    /\ wpc' = [wpc EXCEPT ![p] = "write"]
    /\ overlap' = (overlap \/ \E q \in Writers \ {p} :
                                   wpc[q] = "write" /\ woff[q] < Len(Serialize(wdata[q])))
    /\ UNCHANGED <<seqVars, dirState, wdata, finished>>

\* Line 84 in writer p: one write of the next n chunks at p's offset.
CWrite(p) ==
    /\ wpc[p] = "write"
    /\ LET text == Serialize(wdata[p])
       IN  /\ woff[p] < Len(text)
           /\ \E n \in 1..(Len(text) - woff[p]) :
                 /\ file' = WriteAt(file, woff[p], SubSeq(text, woff[p] + 1, woff[p] + n))
                 /\ woff' = [woff EXCEPT ![p] = woff[p] + n]
                 /\ finished' = IF woff[p] + n = Len(text) THEN Append(finished, p)
                                ELSE finished
    /\ UNCHANGED <<seqVars, dirState, wpc, wdata, overlap>>

\* The end of the with block in writer p: everything is written, the file
\* is closed.
CClose(p) ==
    /\ wpc[p] = "write"
    /\ woff[p] = Len(Serialize(wdata[p]))
    /\ wpc' = [wpc EXCEPT ![p] = "done"]
    /\ UNCHANGED <<seqVars, dirState, file, woff, wdata, finished, overlap>>

NextConc ==
    \E p \in Writers :
        \/ CMkdir(p)
        \/ COpen(p)
        \/ CWrite(p)
        \/ CClose(p)

SpecConc == InitConc /\ [][NextConc]_vars

(***************************************************************************)
(* Properties.                                                             *)
(***************************************************************************)

Ended == pc \in {"return", "exited"}
Unchanged == file = fileBefore /\ dirState = dirBefore

\* C1: a run whose DIRECTUS_TOKEN is absent or empty makes no network
\* request, leaves the reference directory and the output file as they
\* were, returns False and exits with status 1.
C1_MissingCredential ==
    (pc \notin {"idle", "config"} /\ token \in {"absent", ""}) =>
        /\ netCalls = 0
        /\ Unchanged
        /\ Ended
        /\ success = "False"
        /\ report = "MissingCredential"
        /\ (pc = "exited" => exitStatus = 1)

C1_Witness ==
    /\ pc = "exited" /\ token = "" /\ exitStatus = 1
    /\ runs = 2 /\ fileBefore.exists /\ lastGood # NoValue

\* C2: after a run that ends in failure the output file holds what it held
\* before the run.
C2_NoPartialOutput ==
    (pc = "exited" /\ exitStatus = 1) => file = fileBefore

\* The run did everything: credential, 200, body, a non-empty extraction,
\* the directory and the complete file.
AllSucceeded ==
    /\ ~(token \in {"absent", ""})
    /\ status = 200
    /\ fault = "none"
    /\ full_spec # NoDoc
    /\ Truthy(schema_data)
    /\ dirState = "dir"
    /\ file = FileOf(Serialize(schema_data))

C4_Case ==
    /\ pc = "exited"
    /\ ~(token \in {"absent", ""})
    /\ status = 200
    /\ full_spec.top = "object" /\ full_spec.comp = "object"
    /\ full_spec.sch = "object" /\ full_spec.map # EmptyMap

C4_Result ==
    /\ dirState = "dir"
    /\ file = FileOf(Serialize(Value("object", full_spec.map)))
    /\ exitStatus = 0

C5_Overwrite ==
    (pc = "exited" /\ lastGood # NoValue) => file = FileOf(Serialize(lastGood))

\* C6: a response whose status is not 200 is never parsed or written; the
\* run fails, reported by status: 401 AuthenticationFailed, 403
\* PermissionDenied, another error status HttpError, a non-200 status of a
\* normal response UnexpectedStatus; never ConnectionError.
C6_StatusClassification ==
    (Ended /\ status \notin {0, 200}) =>
        /\ full_spec = NoDoc /\ schema_data = NoValue
        /\ Unchanged
        /\ success = "False"
        /\ (pc = "exited" => exitStatus = 1)
        /\ report = (IF status = 401 THEN "AuthenticationFailed"
                     ELSE IF status = 403 THEN "PermissionDenied"
                     ELSE IF status >= 200 /\ status <= 299 THEN "UnexpectedStatus"
                     ELSE "HttpError")
        /\ report # "ConnectionError"

C6_Witness ==
    /\ pc = "exited" /\ status = 403 /\ raised = "HTTPError"
    /\ report = "PermissionDenied" /\ exitStatus = 1 /\ fileBefore.exists

\* C7: every transport failure of the fetch, the timeout while reading the
\* body included, is reported as ConnectionError; the run exits 1 and
\* writes nothing.
C7_TransportFailures ==
    (pc = "exited" /\ fault \in TransportFaults) =>
        /\ report = "ConnectionError"
        /\ exitStatus = 1
        /\ Unchanged

C8_Result ==
    /\ report = "EmptySchema"
    /\ Unchanged
    /\ success = "False"
    /\ (pc = "exited" => exitStatus = 1)

\* C8 as stated: a 200 response whose document has no "components" key, or
\* has "components" without a "schemas" key, or has an empty
\* components.schemas mapping, is reported as EmptySchema, writes nothing
\* and exits 1.
C8_Original ==
    (Ended /\ status = 200 /\ full_spec # NoDoc
       /\ \/ full_spec.comp = "missing"
          \/ full_spec.comp # "missing" /\ full_spec.sch = "missing"
          \/ full_spec.sch = "object" /\ full_spec.map = EmptyMap)
    => C8_Result

\* C8, amended: the same, for a document that is a JSON object and whose
\* "components", when present, is a JSON object.
C8_EmptyExtraction ==
    (Ended /\ status = 200 /\ full_spec.top = "object"
       /\ \/ full_spec.comp = "missing"
          \/ full_spec.comp = "object" /\ full_spec.sch = "missing"
          \/ full_spec.comp = "object" /\ full_spec.sch = "object"
               /\ full_spec.map = EmptyMap)
    => C8_Result

C8_Witness ==
    /\ pc = "exited" /\ status = 200 /\ exitStatus = 1
    /\ full_spec = Doc("object", "object", "missing", EmptyMap)
    /\ report = "EmptySchema" /\ dirBefore = "absent"

\* C9: the steps of a run are a prefix of configuration, fetch, extraction,
\* write; a step starts only when every step before it succeeded; the
\* first failure ends the run; urlopen is called at most once.
C9_Sequencing ==
    /\ netCalls <= 1
    /\ IsPrefix(steps, Order)
    /\ failedAt # "none" =>
          /\ Ended
          /\ steps # <<>>
          /\ steps[Len(steps)] = failedAt
    /\ pc \notin {"idle", "return", "exited"} =>
          /\ failedAt = "none"
          /\ pc = Order[Len(steps) + 1]

C9_Witness ==
    /\ pc = "exited" /\ failedAt = "extract" /\ netCalls = 1
    /\ steps = <<"config", "fetch", "extract">>

BothDone == Len(finished) = 2 /\ \A p \in Writers : wpc[p] = "done"
LastWriterWins == file = FileOf(Serialize(wdata[finished[2]]))

====
